---- MODULE Spec2Model ----
(***************************************************************************)
(* Model of selfdrive/controls/lib/drive_helpers.py: the VCruiseHelper     *)
(* cruise-speed state machine and get_lag_adjusted_curvature.              *)
(*                                                                         *)
(* Speeds are fixed point: one unit is 0.01 kph, so 145 kph is Kph(145).   *)
(* CS.vEgo, CS.speed and CS.speedCluster carry the product with            *)
(* CV.MS_TO_KPH, the only form in which the code reads them.               *)
(* Times are control frames: cur_time = sm.frame * DT_CTRL with DT_CTRL =  *)
(* 0.01 s, so 1 s is 100 frames and 0.5 s is 50 frames.                    *)
(***************************************************************************)
EXTENDS Integers, Sequences, FiniteSets, TLC

VARIABLES
  CP,                     \* car parameters given to the constructor
  is_metric,              \* unit system the caller passes to every call
  v_cruise_kph,
  v_cruise_cluster_kph,
  v_cruise_kph_last,
  button_timers,
  button_change_states,
  accel_pressed,
  decel_pressed,
  accel_pressed_last,
  decel_pressed_last,
  fastMode,
  reverse_acc_change,
  call,                   \* history: the latest call and its arguments
  event_cycles,           \* history: number of update calls that carried events
  last_event,             \* history: latest event seen for each tracked button
  lag                     \* get_lag_adjusted_curvature: arguments and result

vars == <<CP, is_metric, v_cruise_kph, v_cruise_cluster_kph, v_cruise_kph_last,
          button_timers, button_change_states, accel_pressed, decel_pressed,
          accel_pressed_last, decel_pressed_last, fastMode, reverse_acc_change,
          call, event_cycles, last_event, lag>>

cruise_vars == <<CP, is_metric, v_cruise_kph, v_cruise_cluster_kph, v_cruise_kph_last,
          button_timers, button_change_states, accel_pressed, decel_pressed,
          accel_pressed_last, decel_pressed_last, fastMode, reverse_acc_change,
          call, event_cycles, last_event>>

-----------------------------------------------------------------------------
(* Program constants *)

V_CRUISE_MAX == 145
V_CRUISE_MIN == 8
V_CRUISE_MIN_HONDA == 5
V_CRUISE_DELTA_HONDA == 5
V_CRUISE_ENABLE_MIN_MPH == 32
V_CRUISE_ENABLE_MIN_KPH == 30
V_CRUISE_INITIAL == 255
CRUISE_LONG_PRESS == 50
CONTROL_N == 17

Kph(n) == n * 100

accelCruise == "accelCruise"
decelCruise == "decelCruise"
setCruise == "setCruise"
resumeCruise == "resumeCruise"

\* keys of self.button_timers, in the dict's insertion order
TimerKeys == <<decelCruise, accelCruise>>
Tracked == {decelCruise, accelCruise}

-----------------------------------------------------------------------------
(* Numeric helpers *)

\* Python round(): nearest integer to n/d, ties to even
RoundHalfEven(n, d) ==
  LET q == n \div d
      r == n % d
  IN  IF 2 * r < d THEN q
      ELSE IF 2 * r > d THEN q + 1
      ELSE IF q % 2 = 0 THEN q ELSE q + 1

RECURSIVE PowerOfTwoMod100(_)
\* 2^k modulo 100
PowerOfTwoMod100(k) == IF k = 0 THEN 1 ELSE (2 * PowerOfTwoMod100(k - 1)) % 100

RECURSIVE BinaryExponent(_)
\* the exponent e of the double nearest n/100: 2^e <= n/100 < 2^(e+1), n > 0
BinaryExponent(n) ==
  IF n >= 200 THEN BinaryExponent(n \div 2) + 1
  ELSE IF n < 100 THEN BinaryExponent(2 * n) - 1
  ELSE 0

\* a speed of n hundredths is held as the double nearest n/100, whose 53-bit
\* significand is n * 2^(52 - e) / 100 rounded to an integer; this is the
\* remainder of that division: 0 when n/100 is exact, above 50 when the double
\* lies above n/100, below 50 when it lies below (50 itself cannot occur)
DoubleRemainder(n) ==
  ((n % 100) * PowerOfTwoMod100(52 - BinaryExponent(n))) % 100

\* round(x, 1) of a speed in 0.01 kph: Python rounds the exact value of the
\* double, so a speed ending in 5 hundredths goes to the side its double lies
\* on, and to the even tenth only when the double is exact; the double of -x is
\* the negated double of x, and so is its rounding
Round1(v) ==
  LET n == IF v < 0 THEN -v ELSE v
      m == IF n > 0 /\ n % 10 = 5 /\ DoubleRemainder(n) # 0
           THEN IF DoubleRemainder(n) > 50
                THEN (n \div 10 + 1) * 10 ELSE (n \div 10) * 10
           ELSE RoundHalfEven(n, 10) * 10
  IN  IF v < 0 THEN -m ELSE m

\* round(x) of a speed in 0.01 kph, as an integer number of whole units
Round0(v) == RoundHalfEven(v, 100)

Max(a, b) == IF a >= b THEN a ELSE b
Min(a, b) == IF a <= b THEN a ELSE b



\* common.numpy_fast.clip
clip(x, lo, hi) == Max(lo, Min(hi, x))

CeilDiv(a, b) == -((-a) \div b)

\* CRUISE_NEAREST_FUNC[button_type](v / delta) * delta
CRUISE_NEAREST_FUNC(button_type, v, delta) ==
  IF button_type = accelCruise THEN CeilDiv(v, delta) * delta
  ELSE (v \div delta) * delta

CRUISE_INTERVAL_SIGN(button_type) ==
  IF button_type = accelCruise THEN 1 ELSE -1

-----------------------------------------------------------------------------
(* The VCruiseHelper object as a record *)

Self ==
  [CP |-> CP,
   v_cruise_kph |-> v_cruise_kph,
   v_cruise_cluster_kph |-> v_cruise_cluster_kph,
   v_cruise_kph_last |-> v_cruise_kph_last,
   button_timers |-> button_timers,
   button_change_states |-> button_change_states,
   accel_pressed |-> accel_pressed,
   decel_pressed |-> decel_pressed,
   accel_pressed_last |-> accel_pressed_last,
   decel_pressed_last |-> decel_pressed_last,
   fastMode |-> fastMode,
   reverse_acc_change |-> reverse_acc_change]

\* VCruiseHelper.__init__
VCruiseHelperInit(cp, reverse_param) ==
  [CP |-> cp,
   v_cruise_kph |-> Kph(V_CRUISE_INITIAL),
   v_cruise_cluster_kph |-> Kph(V_CRUISE_INITIAL),
   v_cruise_kph_last |-> 0,
   button_timers |-> [k \in Tracked |-> 0],
   button_change_states |-> [k \in Tracked |-> [standstill |-> FALSE]],
   accel_pressed |-> FALSE,
   decel_pressed |-> FALSE,
   accel_pressed_last |-> 0,
   decel_pressed_last |-> 0,
   fastMode |-> FALSE,
   reverse_acc_change |-> reverse_param]

v_cruise_initialized(s) == s.v_cruise_kph # Kph(V_CRUISE_INITIAL)

-----------------------------------------------------------------------------
(* Simple policy: _update_v_cruise_non_pcm *)

\* index of the first release event of a tracked button, 0 when there is none
FirstTrackedRelease(evs) ==
  LET hits == {i \in 1..Len(evs) : evs[i].type \in Tracked /\ ~evs[i].pressed}
  IN  IF hits = {} THEN 0 ELSE CHOOSE i \in hits : \A j \in hits : i <= j

LongPressKeyMutZeroCounts(timers) ==
  LET hits == {i \in 1..Len(TimerKeys) :
                 timers[TimerKeys[i]] % CRUISE_LONG_PRESS = 0}
  IN  IF hits = {} THEN "none"
      ELSE TimerKeys[CHOOSE i \in hits : \A j \in hits : i <= j]

LongPressKeyMutOnce(timers) ==
  LET hits == {i \in 1..Len(TimerKeys) :
                 timers[TimerKeys[i]] = CRUISE_LONG_PRESS}
  IN  IF hits = {} THEN "none"
      ELSE TimerKeys[CHOOSE i \in hits : \A j \in hits : i <= j]

\* the for-else over self.button_timers.keys(): first key whose timer is a
\* positive multiple of CRUISE_LONG_PRESS, "none" when there is none
LongPressKey(timers) ==
  LET hits == {i \in 1..Len(TimerKeys) :
                 /\ timers[TimerKeys[i]] # 0
                 /\ timers[TimerKeys[i]] % CRUISE_LONG_PRESS = 0}
  IN  IF hits = {} THEN "none"
      ELSE TimerKeys[CHOOSE i \in hits : \A j \in hits : i <= j]

SelectButtonMutBoth(s, evs) ==
  LET i == FirstTrackedRelease(evs)
      k == LongPressKey(s.button_timers)
  IN  IF k # "none"
      THEN [button_type |-> k, long_press |-> TRUE, end_long_press |-> FALSE]
      ELSE IF i # 0
      THEN [button_type |-> evs[i].type, long_press |-> FALSE, end_long_press |-> FALSE]
      ELSE [button_type |-> "none", long_press |-> FALSE, end_long_press |-> FALSE]

\* lines 130-141: the one button event the cycle processes
SelectButton(s, evs) ==
  LET i == FirstTrackedRelease(evs)
  IN  IF i # 0
      THEN IF s.button_timers[evs[i].type] > CRUISE_LONG_PRESS
           THEN [button_type |-> "none", long_press |-> FALSE, end_long_press |-> TRUE]
           ELSE [button_type |-> evs[i].type, long_press |-> FALSE,
                 end_long_press |-> FALSE]
      ELSE LET k == LongPressKey(s.button_timers)
           IN  [button_type |-> k, long_press |-> (k # "none"),
                end_long_press |-> FALSE]

v_cruise_delta_base(metric) == IF metric THEN 100 ELSE 160
v_cruise_delta_multiplier(metric) == IF metric THEN 10 ELSE 5

AdjustSpeedMutStepAfterSnap(v, button_type, long_press, reverse, metric) ==
  LET base == v_cruise_delta_base(metric)
      mult == v_cruise_delta_multiplier(metric)
      delta == base * (IF long_press THEN mult ELSE 1)
      snapped == IF long_press /\ v % delta # 0
                 THEN CRUISE_NEAREST_FUNC(button_type, v, delta) ELSE v
  IN  snapped + delta * CRUISE_INTERVAL_SIGN(button_type)

AdjustSpeedMutStepTwo(v, button_type, long_press, reverse, metric) ==
  v + 2 * v_cruise_delta_base(metric) * CRUISE_INTERVAL_SIGN(button_type)

AdjustSpeedMutToggleIgnored(v, button_type, long_press, reverse, metric) ==
  LET delta == v_cruise_delta_base(metric)
                 * (IF long_press THEN v_cruise_delta_multiplier(metric) ELSE 1)
  IN  IF long_press /\ v % delta # 0
      THEN CRUISE_NEAREST_FUNC(button_type, v, delta)
      ELSE v + delta * CRUISE_INTERVAL_SIGN(button_type)

\* lines 151-162: step by the interval or snap to the interval boundary
AdjustSpeed(v, button_type, long_press, reverse, metric) ==
  LET base == v_cruise_delta_base(metric)
      mult == v_cruise_delta_multiplier(metric)
  IN  IF reverse
      THEN LET delta == base * (IF long_press THEN 1 ELSE mult)
           IN  IF ~long_press /\ v % delta # 0
               THEN CRUISE_NEAREST_FUNC(button_type, v, delta)
               ELSE v + delta * CRUISE_INTERVAL_SIGN(button_type)
      ELSE LET delta == base * (IF long_press THEN mult ELSE 1)
           IN  IF long_press /\ v % delta # 0
               THEN CRUISE_NEAREST_FUNC(button_type, v, delta)
               ELSE v + delta * CRUISE_INTERVAL_SIGN(button_type)

GasClampMutMin(v, CS, button_type) ==
  IF CS.gasPressed /\ button_type \in {decelCruise, setCruise}
  THEN Min(v, CS.vEgo) ELSE v

\* lines 164-166
GasClamp(v, CS, button_type) ==
  IF CS.gasPressed /\ button_type \in {decelCruise, setCruise}
  THEN Max(v, CS.vEgo) ELSE v

StandstillSuppressedMutCurrentOnly(s, CS, button_type) ==
  button_type = accelCruise /\ CS.standstill

\* lines 147-148
StandstillSuppressed(s, CS, button_type) ==
  /\ button_type = accelCruise
  /\ (s.button_change_states[button_type].standstill \/ CS.standstill)

\* _update_v_cruise_non_pcm with the release that ends a long press processed
\* like the release of a short press
_update_v_cruise_non_pcm_MutEndSteps(s, CS, enabled_long, metric) ==
  IF ~enabled_long THEN s
  ELSE
    LET i == FirstTrackedRelease(CS.buttonEvents)
        sel == IF i # 0
               THEN [button_type |-> CS.buttonEvents[i].type, long_press |-> FALSE]
               ELSE SelectButton(s, CS.buttonEvents)
    IN  IF sel.button_type = "none" THEN s
        ELSE IF StandstillSuppressed(s, CS, sel.button_type) THEN s
        ELSE
          LET v1 == AdjustSpeed(s.v_cruise_kph, sel.button_type, sel.long_press,
                                s.reverse_acc_change, metric)
              v2 == GasClamp(v1, CS, sel.button_type)
          IN  [s EXCEPT !.v_cruise_kph =
                 clip(Round1(v2), Kph(V_CRUISE_MIN), Kph(V_CRUISE_MAX))]

\* lines 117-168
_update_v_cruise_non_pcm(s, CS, enabled_long, metric) ==
  IF ~enabled_long THEN s
  ELSE
    LET sel == SelectButton(s, CS.buttonEvents)
    IN  IF sel.end_long_press \/ sel.button_type = "none" THEN s
        ELSE IF StandstillSuppressed(s, CS, sel.button_type) THEN s
        ELSE
          LET v1 == AdjustSpeed(s.v_cruise_kph, sel.button_type, sel.long_press,
                                s.reverse_acc_change, metric)
              v2 == GasClamp(v1, CS, sel.button_type)
          IN  [s EXCEPT !.v_cruise_kph =
                 clip(Round1(v2), Kph(V_CRUISE_MIN), Kph(V_CRUISE_MAX))]

-----------------------------------------------------------------------------
(* update_button_timers *)

RECURSIVE ApplyTimerEvents(_, _, _)
\* lines 215-219, one event after the other
ApplyTimerEvents(s, evs, standstill) ==
  IF evs = <<>> THEN s
  ELSE
    LET b == Head(evs)
        s1 == IF b.type \in Tracked
              THEN [s EXCEPT
                      !.button_timers[b.type] = IF b.pressed THEN 1 ELSE 0,
                      !.button_change_states[b.type] = [standstill |-> standstill]]
              ELSE s
    IN  ApplyTimerEvents(s1, Tail(evs), standstill)


update_button_timers(s, CS) ==
  LET s1 == [s EXCEPT !.button_timers =
               [k \in Tracked |-> IF s.button_timers[k] > 0
                                  THEN s.button_timers[k] + 1
                                  ELSE s.button_timers[k]]]
  IN  ApplyTimerEvents(s1, CS.buttonEvents, CS.standstill)

-----------------------------------------------------------------------------
(* Ramping policy: _update_v_cruise_non_pcm_honda and its latches *)

\* line 172: int(round(float(v) * 0.6233 + 0.0995)), v in 0.01 kph
ToDisplayUnit(v) == RoundHalfEven(v * 6233 + 99500, 1000000) * 100

\* line 97: int(round((float(round(v)) - 0.0995) / 0.6233))
FromDisplayUnit(v) == RoundHalfEven(Round0(v) * 10000 - 995, 6233) * 100

\* 1 s and 0.5 s of cur_time = sm.frame * DT_CTRL, in frames
HoldFrames == 100
FastHoldFrames == 50

\* cur_time and *_pressed_last are the doubles frame * 0.01, and their difference
\* is rounded: for these values of pressed_last (all there are below frame 320)
\* the difference over exactly 100, resp. 50, frames comes out below 1, resp. 0.5.
\* No other difference falls on the other side of its threshold.
RoundsBelowHold ==
  {16, 17, 41, 67, 68, 69, 70, 92, 93, 94, 95, 105, 107, 109, 111, 113, 115, 132,
   134, 136, 138, 140, 157, 159, 161, 163, 165, 182, 184, 186, 188, 190, 301, 305,
   310, 314, 318}
RoundsBelowFastHold ==
  {8, 34, 35, 46, 47, 66, 67, 68, 69, 70, 91, 92, 93, 94, 95, 155, 157, 159, 161,
   163, 165, 182, 184, 186, 188, 190}

\* (cur_time - pressed_last) >= 1
HeldOneSecond(pressed_last, cur_time) ==
  \/ cur_time - pressed_last > HoldFrames
  \/ (cur_time - pressed_last = HoldFrames /\ pressed_last \notin RoundsBelowHold)

\* (cur_time - pressed_last) >= 0.5
HeldHalfSecond(pressed_last, cur_time) ==
  \/ cur_time - pressed_last > FastHoldFrames
  \/ (cur_time - pressed_last = FastHoldFrames
      /\ pressed_last \notin RoundsBelowFastHold)

\* HoldDue with the half-second period granted before fast mode
HoldDueMutFastAlways(s, pressed_last, cur_time) ==
  \/ HeldOneSecond(pressed_last, cur_time)
  \/ HeldHalfSecond(pressed_last, cur_time)

\* lines 176 and 182: the hold condition of either button
HoldDue(s, pressed_last, cur_time) ==
  \/ HeldOneSecond(pressed_last, cur_time)
  \/ (s.fastMode /\ HeldHalfSecond(pressed_last, cur_time))

\* v += V_CRUISE_DELTA_HONDA - (v % V_CRUISE_DELTA_HONDA)
HondaSnapUp(v) ==
  v + (Kph(V_CRUISE_DELTA_HONDA) - (v % Kph(V_CRUISE_DELTA_HONDA)))

\* v -= V_CRUISE_DELTA_HONDA - ((V_CRUISE_DELTA_HONDA - v) % V_CRUISE_DELTA_HONDA)
HondaSnapDown(v) ==
  v - (Kph(V_CRUISE_DELTA_HONDA)
         - ((Kph(V_CRUISE_DELTA_HONDA) - v) % Kph(V_CRUISE_DELTA_HONDA)))

RECURSIVE LatchButtons(_, _, _)
\* lines 83-95
LatchButtons(s, evs, cur_time) ==
  IF evs = <<>> THEN s
  ELSE
    LET b == Head(evs)
        s1 == IF b.pressed
              THEN IF b.type = accelCruise
                   THEN [s EXCEPT !.accel_pressed = TRUE,
                                  !.accel_pressed_last = cur_time]
                   ELSE IF b.type = decelCruise
                   THEN [s EXCEPT !.decel_pressed = TRUE,
                                  !.decel_pressed_last = cur_time]
                   ELSE s
              ELSE IF b.type = accelCruise
                   THEN [s EXCEPT !.accel_pressed = FALSE]
                   ELSE IF b.type = decelCruise
                   THEN [s EXCEPT !.decel_pressed = FALSE]
                   ELSE s
    IN  LatchButtons(s1, Tail(evs), cur_time)

RECURSIVE HondaReleaseEdges(_, _, _, _)
\* lines 188-205: the speed after the loop over CS.buttonEvents
HondaReleaseEdges(s, v, CS, evs) ==
  IF evs = <<>> THEN v
  ELSE
    LET b == Head(evs)
        v1 == IF ~b.pressed /\ b.type = accelCruise /\ ~s.fastMode
              THEN IF s.reverse_acc_change THEN HondaSnapUp(v) ELSE v + Kph(1)
              ELSE IF ~b.pressed /\ b.type = decelCruise /\ ~s.fastMode
              THEN IF s.reverse_acc_change THEN HondaSnapDown(v) ELSE v - Kph(1)
              ELSE v
        v2 == IF CS.gasPressed /\ b.type \in {decelCruise, setCruise}
              THEN Max(v1, CS.vEgo) ELSE v1
    IN  HondaReleaseEdges(s, v2, CS, Tail(evs))

_update_v_cruise_non_pcm_honda(s, CS, enabled_long, metric, cur_time) ==
  LET v0 == IF metric THEN s.v_cruise_kph ELSE ToDisplayUnit(s.v_cruise_kph)
  IN
  IF ~enabled_long THEN [s EXCEPT !.v_cruise_kph = v0]
  ELSE
    LET v1 ==
          IF s.accel_pressed
          THEN IF HoldDue(s, s.accel_pressed_last, cur_time)
               THEN IF s.reverse_acc_change THEN v0 + Kph(1) ELSE HondaSnapUp(v0)
               ELSE v0
          ELSE IF s.decel_pressed
          THEN IF HoldDue(s, s.decel_pressed_last, cur_time)
               THEN IF s.reverse_acc_change THEN v0 - Kph(1) ELSE HondaSnapDown(v0)
               ELSE v0
          ELSE HondaReleaseEdges(s, v0, CS, CS.buttonEvents)
    IN  [s EXCEPT !.v_cruise_kph =
           clip(v1, Kph(V_CRUISE_MIN_HONDA), Kph(V_CRUISE_MAX))]

\* lines 99-105
UpdateFastMode(s, cur_time) ==
  IF s.accel_pressed \/ s.decel_pressed
  THEN IF s.v_cruise_kph_last # s.v_cruise_kph
       THEN [s EXCEPT !.accel_pressed_last = cur_time,
                      !.decel_pressed_last = cur_time,
                      !.fastMode = TRUE]
       ELSE s
  ELSE [s EXCEPT !.fastMode = FALSE]

-----------------------------------------------------------------------------
(* update_v_cruise and initialize_v_cruise *)

OwnsSetSpeed(cp) == cp.pcmCruise /\ cp.pcmCruiseSpeed

update_v_cruise(s, CS, enabled_long, metric, sm_frame, reverse_param) ==
  LET cur_time == sm_frame
      s0 == [s EXCEPT !.v_cruise_kph_last = s.v_cruise_kph,
                      !.reverse_acc_change = reverse_param]
  IN
  IF CS.available
  THEN IF ~OwnsSetSpeed(s0.CP)
       THEN IF CS.enabled
            THEN IF s0.CP.carName = "honda"
                 THEN LET s1 == LatchButtons(s0, CS.buttonEvents, cur_time)
                          s2 == _update_v_cruise_non_pcm_honda(s1, CS, enabled_long,
                                                               metric, cur_time)
                          s3 == [s2 EXCEPT !.v_cruise_kph =
                                   IF metric THEN s2.v_cruise_kph
                                   ELSE FromDisplayUnit(s2.v_cruise_kph)]
                          s4 == [s3 EXCEPT !.v_cruise_cluster_kph = s3.v_cruise_kph]
                      IN  UpdateFastMode(s4, cur_time)
                 ELSE LET s1 == _update_v_cruise_non_pcm(s0, CS, enabled_long, metric)
                          s2 == [s1 EXCEPT !.v_cruise_cluster_kph = s1.v_cruise_kph]
                      IN  update_button_timers(s2, CS)
            ELSE s0
       ELSE [s0 EXCEPT !.v_cruise_kph = CS.speed,
                       !.v_cruise_cluster_kph = CS.speedCluster]
  ELSE [s0 EXCEPT !.v_cruise_kph = Kph(V_CRUISE_INITIAL),
                  !.v_cruise_cluster_kph = Kph(V_CRUISE_INITIAL)]

NeverSetThreshold == 250

HasResumeEventMutAccelOnly(evs) ==
  \E i \in 1..Len(evs) : evs[i].type = accelCruise

\* line 227: any(b.type in (accelCruise, resumeCruise) for b in CS.buttonEvents)
HasResumeEvent(evs) ==
  \E i \in 1..Len(evs) : evs[i].type \in {accelCruise, resumeCruise}

initialize_v_cruise(s, CS, metric) ==
  IF OwnsSetSpeed(s.CP) THEN s
  ELSE
    LET v == IF HasResumeEvent(CS.buttonEvents)
                /\ s.v_cruise_kph_last < Kph(NeverSetThreshold)
             THEN s.v_cruise_kph_last
             ELSE Kph(Round0(clip(CS.vEgo,
                                  IF metric THEN Kph(V_CRUISE_ENABLE_MIN_KPH)
                                  ELSE Kph(V_CRUISE_ENABLE_MIN_MPH),
                                  Kph(V_CRUISE_MAX))))
    IN  [s EXCEPT !.v_cruise_kph = v, !.v_cruise_cluster_kph = v]

-----------------------------------------------------------------------------
(* Inputs *)

Ev(t, p) == [type |-> t, pressed |-> p]

CarState(available, enabled, standstill, gasPressed, vEgo, speed, speedCluster, evs) ==
  [available |-> available, enabled |-> enabled, standstill |-> standstill,
   gasPressed |-> gasPressed, vEgo |-> vEgo, speed |-> speed,
   speedCluster |-> speedCluster, buttonEvents |-> evs]

CarParams(pcmCruise, pcmCruiseSpeed, carName) ==
  [pcmCruise |-> pcmCruise, pcmCruiseSpeed |-> pcmCruiseSpeed, carName |-> carName]

PcmCar == CarParams(TRUE, TRUE, "toyota")
SimpleCar == CarParams(FALSE, FALSE, "toyota")
RampingCar == CarParams(FALSE, TRUE, "honda")

NoCall ==
  [op |-> "none", CS |-> CarState(FALSE, FALSE, FALSE, FALSE, 0, 0, 0, <<>>),
   enabled_long |-> FALSE, frame |-> 0, repeat |-> FALSE, idle_before |-> TRUE,
   pre_timers |-> [k \in Tracked |-> 0],
   pre_standstill |-> [k \in Tracked |-> FALSE],
   reverse_before |-> FALSE,
   press_frame |-> [k \in Tracked |-> 0],
   change_frame |-> 0,
   v_before_pair |-> 0]

-----------------------------------------------------------------------------
(* Actions *)

Become(r) ==
  /\ v_cruise_kph' = r.v_cruise_kph
  /\ v_cruise_cluster_kph' = r.v_cruise_cluster_kph
  /\ v_cruise_kph_last' = r.v_cruise_kph_last
  /\ button_timers' = r.button_timers
  /\ button_change_states' = r.button_change_states
  /\ accel_pressed' = r.accel_pressed
  /\ decel_pressed' = r.decel_pressed
  /\ accel_pressed_last' = r.accel_pressed_last
  /\ decel_pressed_last' = r.decel_pressed_last
  /\ fastMode' = r.fastMode
  /\ reverse_acc_change' = r.reverse_acc_change

RECURSIVE LatestEvents(_, _)
\* the latest event of each tracked button once evs have happened
LatestEvents(le, evs) ==
  IF evs = <<>> THEN le
  ELSE LET b == Head(evs)
       IN  LatestEvents(IF b.type \in Tracked
                        THEN [le EXCEPT ![b.type] =
                                IF b.pressed THEN "press" ELSE "release"]
                        ELSE le,
                        Tail(evs))

NothingHeld ==
  /\ \A k \in Tracked : button_timers[k] = 0
  /\ ~accel_pressed /\ ~decel_pressed

\* one control cycle: controlsd calls update_v_cruise(CS, enabled, is_metric, sm);
\* with stamped, the history also keeps the frame of each press and of the
\* latest change of the target speed
UpdateStamped(CS, enabled_long, sm_frame, reverse_param, stamped) ==
  /\ Become(update_v_cruise(Self, CS, enabled_long, is_metric, sm_frame, reverse_param))
  /\ call' = [op |-> "update", CS |-> CS, enabled_long |-> enabled_long,
              frame |-> sm_frame,
              repeat |-> /\ call.op = "update"
                         /\ call.CS = CS
                         /\ call.enabled_long = enabled_long
                         /\ call.frame = sm_frame
                         /\ reverse_acc_change = reverse_param,
              idle_before |-> NothingHeld,
              pre_timers |-> button_timers,
              pre_standstill |-> [k \in Tracked |-> button_change_states[k].standstill],
              reverse_before |-> reverse_acc_change,
              press_frame |->
                [k \in Tracked |->
                   IF stamped /\ LatestEvents([b \in Tracked |-> "none"], CS.buttonEvents)[k] = "press"
                   THEN sm_frame ELSE call.press_frame[k]],
              change_frame |-> IF stamped /\ v_cruise_kph' # v_cruise_kph
                               THEN sm_frame ELSE call.change_frame,
              v_before_pair |-> v_cruise_kph_last]
  /\ last_event' = LatestEvents(last_event, CS.buttonEvents)
  /\ event_cycles' = IF CS.buttonEvents = <<>> THEN event_cycles ELSE event_cycles + 1
  /\ UNCHANGED <<CP, is_metric, lag>>

\* one control cycle, frames of presses and changes not kept in the history
Update(CS, enabled_long, sm_frame, reverse_param) ==
  UpdateStamped(CS, enabled_long, sm_frame, reverse_param, FALSE)

\* the transition into active cruise: initialize_v_cruise(CS, is_metric)
Initialize(CS) ==
  /\ Become(initialize_v_cruise(Self, CS, is_metric))
  /\ call' = [op |-> "initialize", CS |-> CS, enabled_long |-> FALSE,
              frame |-> call.frame, repeat |-> FALSE, idle_before |-> NothingHeld,
              pre_timers |-> button_timers,
              pre_standstill |-> [k \in Tracked |-> button_change_states[k].standstill],
              reverse_before |-> reverse_acc_change,
              press_frame |-> call.press_frame,
              change_frame |-> call.change_frame,
              v_before_pair |-> v_cruise_kph]
  /\ UNCHANGED <<CP, is_metric, last_event, event_cycles, lag>>

InitCruise(cars) ==
  /\ CP \in cars
  /\ is_metric \in BOOLEAN
  /\ \E reverse_param \in BOOLEAN :
       LET r == VCruiseHelperInit(CP, reverse_param)
       IN  /\ v_cruise_kph = r.v_cruise_kph
           /\ v_cruise_cluster_kph = r.v_cruise_cluster_kph
           /\ v_cruise_kph_last = r.v_cruise_kph_last
           /\ button_timers = r.button_timers
           /\ button_change_states = r.button_change_states
           /\ accel_pressed = r.accel_pressed
           /\ decel_pressed = r.decel_pressed
           /\ accel_pressed_last = r.accel_pressed_last
           /\ decel_pressed_last = r.decel_pressed_last
           /\ fastMode = r.fastMode
           /\ reverse_acc_change = r.reverse_acc_change
  /\ call = NoCall
  /\ last_event = [k \in Tracked |-> "none"]
  /\ event_cycles = 0

-----------------------------------------------------------------------------
(* get_lag_adjusted_curvature, in exact rational arithmetic: <<n, d>>, d > 0 *)

RECURSIVE GCD(_, _)
GCD(a, b) == IF b = 0 THEN a ELSE GCD(b, a % b)

Abs(a) == IF a < 0 THEN -a ELSE a

Rat(n, d) ==
  LET sn == IF d < 0 THEN -n ELSE n
      sd == Abs(d)
      g == GCD(Abs(sn), sd)
  IN  <<sn \div g, sd \div g>>

RAdd(a, b) == Rat(a[1] * b[2] + b[1] * a[2], a[2] * b[2])
RSub(a, b) == Rat(a[1] * b[2] - b[1] * a[2], a[2] * b[2])
RMul(a, b) == Rat(a[1] * b[1], a[2] * b[2])
RDiv(a, b) == Rat(a[1] * b[2], a[2] * b[1])
RLe(a, b) == a[1] * b[2] <= b[1] * a[2]
RLt(a, b) == a[1] * b[2] < b[1] * a[2]
RNeg(a) == <<-a[1], a[2]>>
RMax(a, b) == IF RLe(b, a) THEN a ELSE b
RMin(a, b) == IF RLe(a, b) THEN a ELSE b
RAbs(a) == <<Abs(a[1]), a[2]>>
RZero == Rat(0, 1)

\* common.numpy_fast.clip on rationals
RClip(x, lo, hi) == RMax(lo, RMin(hi, x))

MIN_SPEED == Rat(1, 1)
MAX_LATERAL_JERK == Rat(5, 1)
\* common.realtime.DT_MDL
DT_MDL == Rat(1, 20)
\* the 0.2 s added to CP.steerActuatorDelay
ExtraDelay == Rat(1, 5)

\* selfdrive.modeld.constants.T_IDXS[:CONTROL_N]: 10 * (i / 32)^2, i = 0 .. 16
T_IDXS == [i \in 1..CONTROL_N |-> Rat(10 * (i - 1) * (i - 1), 1024)]

\* common.numpy_fast.interp for one x: linear between the grid points, the end
\* values outside the grid
interp(x, xp, fp) ==
  LET N == Len(xp)
      above == {i \in 1..N : RLt(xp[i], x)}
      hi == Cardinality(above)       \* xp increases: the count of points below x
  IN  IF hi = N THEN fp[N]
      ELSE IF hi = 0 THEN fp[1]
      ELSE RAdd(RDiv(RMul(RSub(x, xp[hi]), RSub(fp[hi + 1], fp[hi])),
                     RSub(xp[hi + 1], xp[hi])),
                fp[hi])

ZeroTrajectory == [i \in 1..CONTROL_N |-> RZero]


\* line 250: the one length the code looks at
LengthGuard(psis, curvatures, curvature_rates) == Len(psis) # CONTROL_N

max_curvature_rateMutNoFloor(v_ego) == RDiv(MAX_LATERAL_JERK, RMul(v_ego, v_ego))

\* lines 254 and 269
max_curvature_rate(v_ego) ==
  LET v == RMax(MIN_SPEED, v_ego)
  IN  RDiv(MAX_LATERAL_JERK, RMul(v, v))

get_lag_adjusted_curvature(steerActuatorDelay, v_ego_in, psis_in, curvatures_in, curvature_rates_in) ==
  LET bad == LengthGuard(psis_in, curvatures_in, curvature_rates_in)
      psis == IF bad THEN ZeroTrajectory ELSE psis_in
      curvatures == IF bad THEN ZeroTrajectory ELSE curvatures_in
      curvature_rates == IF bad THEN ZeroTrajectory ELSE curvature_rates_in
      v_ego == RMax(MIN_SPEED, v_ego_in)
      delay == RAdd(steerActuatorDelay, ExtraDelay)
  IN
  IF Len(curvatures) = 0 \/ Len(curvature_rates) = 0
  THEN [status |-> "IndexError", curvature |-> RZero, curvature_rate |-> RZero]
  ELSE
    LET current_curvature_desired == curvatures[1]
        psi == interp(delay, T_IDXS, psis)
        average_curvature_desired == RDiv(psi, RMul(v_ego, delay))
        desired_curvature ==
          RSub(RMul(Rat(2, 1), average_curvature_desired), current_curvature_desired)
        desired_curvature_rate == curvature_rates[1]
        max_rate == max_curvature_rate(v_ego_in)
    IN  [status |-> "ok",
         curvature |-> RClip(desired_curvature,
                             RSub(current_curvature_desired, RMul(max_rate, DT_MDL)),
                             RAdd(current_curvature_desired, RMul(max_rate, DT_MDL))),
         curvature_rate |-> RClip(desired_curvature_rate, RNeg(max_rate), max_rate)]

NoLag == [pc |-> "idle"]

\* one call of get_lag_adjusted_curvature on the arguments held in lag
Compensate ==
  /\ lag.pc = "args"
  /\ lag' = [lag EXCEPT !.pc = "done",
                        !.result = get_lag_adjusted_curvature(
                                      lag.steerActuatorDelay, lag.v_ego, lag.psis,
                                      lag.curvatures, lag.curvature_rates)]
  /\ UNCHANGED cruise_vars

-----------------------------------------------------------------------------
(* Specification Spec: every brand, both unit systems, short holds *)

MaxEventCycles == 2      \* update calls that carry button events, per run
MaxHold == 3             \* largest hold-timer value explored under Spec
MaxFrame == 200          \* largest sm.frame explored
MaxLongHold == 52        \* largest hold-timer value explored under SpecSimple

WithinEventBudget(evs) == evs = <<>> \/ event_cycles < MaxEventCycles

TimersWithin(bound) == \A k \in Tracked : button_timers'[k] <= bound

\* sm.frame never decreases; only the ramping policy reads it
FrameChoices(steps) ==
  IF CP.carName = "honda"
  THEN {f \in {call.frame + d : d \in steps} : f <= MaxFrame}
  ELSE {call.frame}

GeneralEvents ==
  {<<>>, <<Ev(accelCruise, TRUE)>>, <<Ev(accelCruise, FALSE)>>,
   <<Ev(decelCruise, FALSE)>>}

GeneralCarStates ==
  {CarState(FALSE, FALSE, FALSE, FALSE, 0, 0, 0, evs) :
     evs \in {<<>>, <<Ev(accelCruise, FALSE)>>}}
  \cup {CarState(TRUE, FALSE, FALSE, FALSE, 0, Kph(160), Kph(161), <<>>)}
  \cup {CarState(TRUE, TRUE, FALSE, FALSE, 0, Kph(160), Kph(161), evs) :
          evs \in GeneralEvents}

InitializeCarStates ==
  {CarState(TRUE, TRUE, FALSE, FALSE, vEgo, 0, 0, evs) :
     vEgo \in {0, 3150, 16000},
     evs \in {<<>>, <<Ev(resumeCruise, TRUE)>>, <<Ev(decelCruise, TRUE)>>}}

\* under Spec the stored toggle keeps the value it had at construction
UpdateGeneral ==
  \E CS \in GeneralCarStates, enabled_long \in BOOLEAN :
    \E sm_frame \in FrameChoices({0, HoldFrames}) :
      /\ WithinEventBudget(CS.buttonEvents)
      /\ Update(CS, enabled_long, sm_frame, reverse_acc_change)
      /\ TimersWithin(MaxHold)

InitializeGeneral == \E CS \in InitializeCarStates : Initialize(CS)

Init == InitCruise({PcmCar, SimpleCar, RampingCar}) /\ lag = NoLag

Next == UpdateGeneral \/ InitializeGeneral

Spec == Init /\ [][Next]_vars

-----------------------------------------------------------------------------
(* Specification SpecSimple: the simple policy engaged, holds long enough  *)
(* for long presses                                                        *)

SimpleEvents ==
  {<<>>,
   <<Ev(accelCruise, TRUE)>>, <<Ev(accelCruise, FALSE)>>,
   <<Ev(decelCruise, TRUE)>>, <<Ev(decelCruise, FALSE)>>,
   <<Ev(accelCruise, TRUE), Ev(decelCruise, TRUE)>>,
   <<Ev(decelCruise, FALSE), Ev(accelCruise, FALSE)>>}

SimpleCarStates ==
  {CarState(TRUE, TRUE, standstill, FALSE, 0, 0, 0, evs) :
     standstill \in BOOLEAN, evs \in SimpleEvents}

UpdateSimple ==
  \E CS \in SimpleCarStates :
    /\ WithinEventBudget(CS.buttonEvents)
    /\ Update(CS, TRUE, call.frame, reverse_acc_change)
    /\ TimersWithin(MaxLongHold)

\* the engagement that precedes the button presses
InitializeSimple ==
  /\ event_cycles = 0
  /\ \E vEgo \in {0, 3333} :
       Initialize(CarState(TRUE, TRUE, FALSE, FALSE, vEgo, 0, 0, <<>>))

\* metric with the toggle off and on, imperial with the toggle off
InitSimple ==
  /\ InitCruise({SimpleCar})
  /\ is_metric \/ ~reverse_acc_change
  /\ lag = NoLag

NextSimple == UpdateSimple \/ InitializeSimple

SpecSimple == InitSimple /\ [][NextSimple]_vars

-----------------------------------------------------------------------------
(* Specification SpecLag: get_lag_adjusted_curvature over a set of arguments *)

ConstTraj(n, x) == [i \in 1..n |-> x]
RampTraj(n, x) == [i \in 1..n |-> RMul(Rat(i - 1, 1), x)]

\* a trajectory length other than CONTROL_N
ShortLen == CONTROL_N - 1

LagArguments ==
  [pc : {"args"},
   steerActuatorDelay : {Rat(1, 10), Rat(1, 5), Rat(3, 1)},
   v_ego : {Rat(0, 1), Rat(1, 2), Rat(2, 1), Rat(20, 1)},
   psis : {ConstTraj(CONTROL_N, RZero), ConstTraj(CONTROL_N, Rat(2, 25)),
           RampTraj(CONTROL_N, Rat(1, 100)), RampTraj(ShortLen, Rat(1, 100))},
   curvatures : {ConstTraj(CONTROL_N, Rat(1, 125)), ConstTraj(CONTROL_N, Rat(-1, 2)),
                 ConstTraj(ShortLen, Rat(1, 100)), <<>>},
   curvature_rates : {ConstTraj(CONTROL_N, RZero), ConstTraj(CONTROL_N, Rat(10, 1)),
                      ConstTraj(CONTROL_N, Rat(-1, 100)), ConstTraj(ShortLen, Rat(1, 1))},
   result : {[status |-> "none", curvature |-> RZero, curvature_rate |-> RZero]}]

InitLag ==
  /\ InitCruise({SimpleCar})
  /\ is_metric
  /\ ~reverse_acc_change
  /\ lag \in LagArguments

NextLag == Compensate

SpecLag == InitLag /\ [][NextLag]_vars

-----------------------------------------------------------------------------
(* Specification SpecHold: the simple policy with buttons held through two  *)
(* long-press periods                                                      *)

MaxTickHold == 101       \* largest hold-timer value explored under SpecHold

HoldEvents ==
  {<<>>, <<Ev(accelCruise, TRUE)>>, <<Ev(decelCruise, TRUE)>>,
   <<Ev(accelCruise, TRUE), Ev(decelCruise, TRUE)>>, <<Ev(accelCruise, FALSE)>>}

UpdateHold ==
  \E standstill \in BOOLEAN, evs \in HoldEvents :
    /\ WithinEventBudget(evs)
    /\ Update(CarState(TRUE, TRUE, standstill, FALSE, 0, 0, 0, evs),
              TRUE, call.frame, reverse_acc_change)
    /\ TimersWithin(MaxTickHold)

InitializeHold ==
  /\ event_cycles = 0
  /\ Initialize(CarState(TRUE, TRUE, FALSE, FALSE, 3333, 0, 0, <<>>))

InitHold ==
  /\ InitCruise({SimpleCar})
  /\ is_metric /\ ~reverse_acc_change
  /\ lag = NoLag

NextHold == UpdateHold \/ InitializeHold

SpecHold == InitHold /\ [][NextHold]_vars

-----------------------------------------------------------------------------
(* Specification SpecToggle: the simple policy with the ReverseAccChange    *)
(* parameter read anew, and possibly changed, in every update               *)

ToggleEvents ==
  {<<>>, <<Ev(accelCruise, TRUE)>>, <<Ev(accelCruise, FALSE)>>,
   <<Ev(decelCruise, TRUE)>>, <<Ev(decelCruise, FALSE)>>}

UpdateToggle ==
  \E evs \in ToggleEvents, reverse_param \in BOOLEAN :
    /\ WithinEventBudget(evs)
    /\ Update(CarState(TRUE, TRUE, FALSE, FALSE, 0, 0, 0, evs),
              TRUE, call.frame, reverse_param)
    /\ TimersWithin(MaxLongHold)

InitializeToggle ==
  /\ event_cycles = 0
  /\ \E vEgo \in {0, 3333} :
       Initialize(CarState(TRUE, TRUE, FALSE, FALSE, vEgo, 0, 0, <<>>))

InitToggle == InitCruise({SimpleCar}) /\ lag = NoLag

NextToggle == UpdateToggle \/ InitializeToggle

SpecToggle == InitToggle /\ [][NextToggle]_vars

-----------------------------------------------------------------------------
(* Specification SpecGas: the simple policy with the accelerator pressed in  *)
(* some cycles, at vehicle speeds below, inside and above the speed bounds   *)

\* (gasPressed, vEgo * MS_TO_KPH in 0.01 kph)
GasChoices ==
  {<<FALSE, 0>>, <<TRUE, 300>>, <<TRUE, 10035>>, <<TRUE, 16000>>}

UpdateGas ==
  \E evs \in ToggleEvents, gas \in GasChoices :
    /\ WithinEventBudget(evs)
    /\ Update(CarState(TRUE, TRUE, FALSE, gas[1], gas[2], 0, 0, evs),
              TRUE, call.frame, reverse_acc_change)
    /\ TimersWithin(MaxLongHold)

InitializeGas ==
  /\ event_cycles = 0
  /\ Initialize(CarState(TRUE, TRUE, FALSE, FALSE, 3333, 0, 0, <<>>))

InitGas == InitCruise({SimpleCar}) /\ ~reverse_acc_change /\ lag = NoLag

NextGas == UpdateGas \/ InitializeGas

SpecGas == InitGas /\ [][NextGas]_vars

-----------------------------------------------------------------------------
(* Specification SpecRamping: the ramping policy engaged, one frame per     *)
(* cycle while a button is latched                                          *)

MaxRampEvents == 1       \* update calls that carry button events under SpecRamping
MaxRampFrame == 155      \* largest sm.frame explored under SpecRamping
FirstPressFrame == 16    \* a frame at which the first press may also arrive

RampEvents ==
  {<<>>,
   <<Ev(accelCruise, TRUE)>>, <<Ev(accelCruise, FALSE)>>,
   <<Ev(decelCruise, TRUE)>>, <<Ev(decelCruise, FALSE)>>}

\* sm.frame advances by one per cycle while a button is latched; cycles with
\* nothing latched are not counted, except that the first press may arrive
\* at FirstPressFrame
RampFrames(evs) ==
  IF accel_pressed \/ decel_pressed
  THEN {call.frame + 1}
  ELSE IF event_cycles = 0 /\ evs # <<>> /\ call.frame = 0
  THEN {0, FirstPressFrame}
  ELSE {call.frame}

UpdateRamping ==
  \E evs \in RampEvents :
    \E standstill \in (IF evs = <<>> THEN {FALSE} ELSE BOOLEAN) :
      \E sm_frame \in RampFrames(evs) :
        /\ evs = <<>> \/ event_cycles < MaxRampEvents
        /\ sm_frame <= MaxRampFrame
        /\ UpdateStamped(CarState(TRUE, TRUE, standstill, FALSE, 0, 0, 0, evs),
                         TRUE, sm_frame, reverse_acc_change, TRUE)

InitializeRamping ==
  /\ event_cycles = 0
  /\ \E vEgo \in {3333, 16000} :
       Initialize(CarState(TRUE, TRUE, FALSE, FALSE, vEgo, 0, 0, <<>>))

InitRamping ==
  /\ InitCruise({RampingCar})
  /\ lag = NoLag

NextRamping == UpdateRamping \/ InitializeRamping

SpecRamping == InitRamping /\ [][NextRamping]_vars

-----------------------------------------------------------------------------
(* Claims *)

UpdateDone == call.op = "update"

SimplePolicyRan ==
  /\ call.op = "update"
  /\ ~OwnsSetSpeed(CP) /\ CP.carName # "honda"
  /\ call.CS.available /\ call.CS.enabled

\* the same, for the step being taken
SimplePolicyRuns ==
  /\ call'.op = "update"
  /\ ~OwnsSetSpeed(CP) /\ CP.carName # "honda"
  /\ call'.CS.available /\ call'.CS.enabled

BrandMin == IF CP.carName = "honda" THEN Kph(V_CRUISE_MIN_HONDA) ELSE Kph(V_CRUISE_MIN)

\* C1: after an update call on a vehicle that synthesizes its set speed,
\* v_cruise_kph lies within the brand's [min, max] bounds ([8, 145] kph, minimum
\* 5 under the ramping policy) or is the uninitialized sentinel 255.
C1_TargetWithinBounds ==
  (UpdateDone /\ ~OwnsSetSpeed(CP)) =>
     \/ (BrandMin <= v_cruise_kph /\ v_cruise_kph <= Kph(V_CRUISE_MAX))
     \/ v_cruise_kph = Kph(V_CRUISE_INITIAL)

RepeatedQuietUpdate ==
  /\ call.op = "update"
  /\ call.repeat
  /\ call.CS.buttonEvents = <<>>

\* C2 as stated: two update calls with identical inputs and no button events leave
\* v_cruise_kph as it was before the two calls (either sub-policy).
C2_TwoQuietUpdatesNoChange ==
  (RepeatedQuietUpdate /\ ~OwnsSetSpeed(CP)) => v_cruise_kph = call.v_before_pair

\* C2 amended: when no tracked button is held (both hold timers 0, neither press
\* latch set), the second of two update calls with identical inputs and no button
\* events leaves v_cruise_kph unchanged.
C2_SecondQuietUpdateNoChange ==
  (RepeatedQuietUpdate /\ call.idle_before) => v_cruise_kph = v_cruise_kph_last

\* the ramping policy in imperial units: the first call re-quantised the speed,
\* the second left it alone
C2_Witness ==
  /\ RepeatedQuietUpdate /\ call.idle_before
  /\ CP.carName = "honda" /\ ~is_metric
  /\ call.CS.available /\ call.CS.enabled
  /\ call.v_before_pair # v_cruise_kph_last
  /\ v_cruise_kph = v_cruise_kph_last
  /\ v_cruise_kph <= Kph(V_CRUISE_MAX)

CountEvents(evs, e) == Cardinality({i \in 1..Len(evs) : evs[i] = e})

\* C3: simple policy, metric, toggle off, longitudinal control on, no standstill
\* suppression: a single increment release that does not end a long press sets
\* v_cruise_kph to old + 1, clamped to [8, 145].
C3_SingleIncrementRelease ==
  [][(/\ SimplePolicyRuns
      /\ is_metric /\ ~reverse_acc_change' /\ call'.enabled_long
      /\ CountEvents(call'.CS.buttonEvents, Ev(accelCruise, FALSE)) = 1
      /\ CountEvents(call'.CS.buttonEvents, Ev(decelCruise, FALSE)) = 0
      /\ button_timers[accelCruise] <= CRUISE_LONG_PRESS
      /\ ~button_change_states[accelCruise].standstill
      /\ ~call'.CS.standstill)
     => v_cruise_kph' =
          Max(Kph(V_CRUISE_MIN), Min(v_cruise_kph + Kph(1), Kph(V_CRUISE_MAX)))]_vars

C3_Witness ==
  /\ SimplePolicyRan
  /\ is_metric /\ ~reverse_acc_change /\ call.enabled_long
  /\ call.CS.buttonEvents = <<Ev(accelCruise, FALSE)>>
  /\ call.pre_timers[accelCruise] \in 1..CRUISE_LONG_PRESS
  /\ ~call.pre_standstill[accelCruise] /\ ~call.CS.standstill
  /\ v_cruise_kph = v_cruise_kph_last + Kph(1)
  /\ v_cruise_kph < Kph(V_CRUISE_MAX)

\* the multiple of the metric long-press interval (10 kph) strictly above v
NextLongBoundary(v) == ((v \div Kph(10)) + 1) * Kph(10)

\* the cycle processes the long-press tick of the increment button at hold timer
\* 50: no release edge, no tick of the decrement button due (its timer is 0 when
\* it is not held), no standstill suppression
IncrementLongPressTick ==
  /\ SimplePolicyRuns
  /\ call'.enabled_long
  /\ FirstTrackedRelease(call'.CS.buttonEvents) = 0
  /\ button_timers[accelCruise] = CRUISE_LONG_PRESS
  /\ ~(/\ button_timers[decelCruise] # 0
       /\ button_timers[decelCruise] % CRUISE_LONG_PRESS = 0)
  /\ ~button_change_states[accelCruise].standstill
  /\ ~call'.CS.standstill

\* C4: simple policy, metric, toggle off: the long-press tick of an increment
\* button held for exactly 50 cycles steps v_cruise_kph by 10 when it is a multiple
\* of 10 and snaps it up to the next multiple of 10 when it is not, never both:
\* the result is the multiple of 10 next above the old speed, clamped to
\* [8, 145]; it is at most 10 above the old speed and, short of the upper bound, a
\* multiple of 10.
C4_LongPressStepOrSnap ==
  [][(IncrementLongPressTick /\ is_metric /\ ~reverse_acc_change')
     => /\ v_cruise_kph' =
             Max(Kph(V_CRUISE_MIN),
                 Min(NextLongBoundary(v_cruise_kph), Kph(V_CRUISE_MAX)))
        /\ v_cruise_kph' - v_cruise_kph <= Kph(10)
        /\ v_cruise_kph' % Kph(10) = 0 \/ v_cruise_kph' = Kph(V_CRUISE_MAX)]_vars

\* the snap with the increment button held alone: 33 kph becomes 40 kph, not 50
C4_Witness ==
  /\ SimplePolicyRan
  /\ is_metric /\ ~reverse_acc_change /\ call.enabled_long
  /\ call.CS.buttonEvents = <<>>
  /\ call.pre_timers[accelCruise] = CRUISE_LONG_PRESS
  /\ call.pre_timers[decelCruise] = 0
  /\ ~call.CS.standstill /\ ~call.pre_standstill[accelCruise]
  /\ v_cruise_kph_last = Kph(33)
  /\ v_cruise_kph_last % Kph(10) # 0
  /\ v_cruise_kph = NextLongBoundary(v_cruise_kph_last)
  /\ v_cruise_kph - v_cruise_kph_last < Kph(10)

\* the increment button is the one whose event the step processes
IncrementEventProcessed ==
  LET evs == call'.CS.buttonEvents
      i == FirstTrackedRelease(evs)
  IN  \/ (i # 0 /\ evs[i].type = accelCruise)
      \/ (i = 0 /\ LongPressKey(button_timers) = accelCruise)

\* C5: simple policy: an increment event (release edge or long-press tick) leaves
\* v_cruise_kph unchanged when the increment button's captured standstill flag is
\* true or the vehicle is at standstill now.
C5_StandstillSuppression ==
  [][(/\ SimplePolicyRuns
      /\ IncrementEventProcessed
      /\ (button_change_states[accelCruise].standstill \/ call'.CS.standstill))
     => v_cruise_kph' = v_cruise_kph]_vars

\* pressed at standstill, released after the vehicle moved off: no change
C5_Witness ==
  /\ SimplePolicyRan
  /\ call.enabled_long
  /\ call.CS.buttonEvents = <<Ev(accelCruise, FALSE)>>
  /\ call.pre_timers[accelCruise] \in 1..CRUISE_LONG_PRESS
  /\ call.pre_standstill[accelCruise]
  /\ ~call.CS.standstill
  /\ v_cruise_kph = v_cruise_kph_last
  /\ v_cruise_kph < Kph(V_CRUISE_MAX)

\* the speed initialize_v_cruise takes from the vehicle speed is a whole number of
\* kph, nearest to the vehicle speed clamped to [ENABLE_MIN, 145]
NearestWholeKph(v, x) == v % Kph(1) = 0 /\ 2 * Abs(v - x) <= Kph(1)

\* C6: initialize on a vehicle that does not own its set speed: with an increment
\* or resume event in this cycle's events and a last known speed below 250, the
\* last known speed is restored; otherwise the speed becomes the vehicle speed
\* clamped to [30 metric / 32 imperial, 145] and rounded to an integer; the
\* cluster speed equals the speed afterwards; a vehicle that owns its set speed
\* is left unchanged.
C6_Initialize ==
  [][call'.op = "initialize" =>
       IF OwnsSetSpeed(CP)
       THEN UNCHANGED <<v_cruise_kph, v_cruise_cluster_kph, v_cruise_kph_last,
                        button_timers, button_change_states, accel_pressed,
                        decel_pressed, accel_pressed_last, decel_pressed_last,
                        fastMode, reverse_acc_change>>
       ELSE LET evs == call'.CS.buttonEvents
                resume == \E i \in 1..Len(evs) :
                             evs[i].type \in {accelCruise, resumeCruise}
                lo == IF is_metric THEN Kph(V_CRUISE_ENABLE_MIN_KPH)
                      ELSE Kph(V_CRUISE_ENABLE_MIN_MPH)
                clamped == Max(lo, Min(call'.CS.vEgo, Kph(V_CRUISE_MAX)))
            IN  /\ IF resume /\ v_cruise_kph_last < Kph(NeverSetThreshold)
                   THEN v_cruise_kph' = v_cruise_kph_last
                   ELSE NearestWholeKph(v_cruise_kph', clamped)
                /\ v_cruise_cluster_kph' = v_cruise_kph'
                /\ v_cruise_kph_last' = v_cruise_kph_last]_vars

\* a resume event restores the last known speed, not the vehicle speed
C6_Witness ==
  /\ call.op = "initialize"
  /\ ~OwnsSetSpeed(CP)
  /\ call.CS.buttonEvents = <<Ev(resumeCruise, TRUE)>>
  /\ call.CS.vEgo = 16000
  /\ v_cruise_kph = v_cruise_kph_last
  /\ v_cruise_cluster_kph = v_cruise_kph
  /\ Kph(V_CRUISE_MIN) <= v_cruise_kph /\ v_cruise_kph < Kph(V_CRUISE_MAX)

Returned == lag.pc = "done" /\ lag.result.status = "ok"

\* C7: when any one of the three trajectories has a length other than CONTROL_N,
\* the call returns (0, 0) and raises nothing.
C7_FailSoftOnAnyMismatch ==
  (/\ lag.pc = "done"
   /\ \/ Len(lag.psis) # CONTROL_N
      \/ Len(lag.curvatures) # CONTROL_N
      \/ Len(lag.curvature_rates) # CONTROL_N)
  => /\ lag.result.status = "ok"
     /\ lag.result.curvature = RZero
     /\ lag.result.curvature_rate = RZero

\* MAX_LATERAL_JERK / speed^2, speed floored at 1.0
JerkBound(v_ego) ==
  LET speed == IF RLe(Rat(1, 1), v_ego) THEN v_ego ELSE Rat(1, 1)
  IN  RDiv(Rat(5, 1), RMul(speed, speed))

\* the first sample of the curvature trajectory the call works on: the one given,
\* or zero once the fail-soft replacement has happened
CurvatureInUse ==
  IF Len(lag.psis) = CONTROL_N THEN lag.curvatures[1] ELSE RZero

\* C8: whenever the call returns, the returned curvature rate has magnitude at
\* most MAX_LATERAL_JERK / speed^2 (speed floored at 1.0) and the returned
\* curvature lies within curvature_trajectory[0] +/- that bound times one model
\* step (0.05 s), curvature_trajectory being the trajectory the call works on.
C8_OutputsWithinJerkBounds ==
  Returned =>
    /\ RLe(RAbs(lag.result.curvature_rate), JerkBound(lag.v_ego))
    /\ RLe(RAbs(RSub(lag.result.curvature, CurvatureInUse)),
           RMul(JerkBound(lag.v_ego), Rat(1, 20)))

\* below the speed floor, a curvature rate of 10 comes back as the bound 5
C8_Witness ==
  /\ Returned
  /\ Len(lag.psis) = CONTROL_N
  /\ RLt(lag.v_ego, Rat(1, 1))
  /\ RLt(JerkBound(lag.v_ego), lag.curvature_rates[1])
  /\ lag.result.curvature_rate = Rat(5, 1)
  /\ lag.result.curvature # lag.curvatures[1]

\* what one adjustment makes of the speed v: a step by the interval, or a snap to
\* the interval boundary next beyond v in the button's direction
BoundaryBeyond(v, dir, d) ==
  IF dir = 1 THEN ((v \div d) + 1) * d ELSE (CeilDiv(v, d) - 1) * d

OneAdjustment(v, button_type, long_press, reverse, metric) ==
  LET dir == IF button_type = accelCruise THEN 1 ELSE -1
      base == IF metric THEN 100 ELSE 160
      mult == IF metric THEN 10 ELSE 5
      raw == IF long_press = reverse
             THEN v + dir * base
             ELSE BoundaryBeyond(v, dir, base * mult)
  IN  Max(Kph(V_CRUISE_MIN), Min(Round1(raw), Kph(V_CRUISE_MAX)))

LongPressDue(k) ==
  button_timers[k] # 0 /\ button_timers[k] % CRUISE_LONG_PRESS = 0

\* C9: simple policy: one button event is processed per update. With a release
\* edge of a tracked button in the events, the speed is unchanged or is the one
\* short-press adjustment of the first such edge, whatever the hold timers are;
\* without one, the speed is unchanged or is the one long-press adjustment of a
\* button whose hold timer is a positive multiple of 50.
C9_OneEventPerCycle ==
  [][(SimplePolicyRuns /\ call'.enabled_long /\ ~call'.CS.gasPressed) =>
       LET evs == call'.CS.buttonEvents
           edges == {i \in 1..Len(evs) : evs[i].type \in Tracked /\ ~evs[i].pressed}
       IN  IF edges # {}
           THEN LET first == CHOOSE i \in edges : \A j \in edges : i <= j
                IN  v_cruise_kph' \in
                      {v_cruise_kph,
                       OneAdjustment(v_cruise_kph, evs[first].type, FALSE,
                                     reverse_acc_change', is_metric)}
           ELSE v_cruise_kph' \in
                  {v_cruise_kph} \cup
                  {OneAdjustment(v_cruise_kph, k, TRUE, reverse_acc_change', is_metric) :
                     k \in {b \in Tracked : LongPressDue(b)}}]_vars

\* an increment release arrives in the cycle in which the decrement button's hold
\* timer stands at 50: the speed goes up by one, the long-press tick is not applied
C9_Witness ==
  /\ SimplePolicyRan
  /\ call.enabled_long
  /\ is_metric /\ ~reverse_acc_change
  /\ call.CS.buttonEvents = <<Ev(accelCruise, FALSE)>>
  /\ call.pre_timers[decelCruise] = CRUISE_LONG_PRESS
  /\ v_cruise_kph = v_cruise_kph_last + Kph(1)
  /\ v_cruise_kph < Kph(V_CRUISE_MAX)

\* C10: a hold timer is nonzero only while its button is held: after any
\* sequence of update calls, a timer whose button's latest event was a release
\* (or that was never pressed) is 0.
C10_TimerOnlyWhileHeld ==
  \A k \in Tracked : button_timers[k] # 0 => last_event[k] = "press"

\* a sub-policy runs in the step being taken: cruise available and enabled on a
\* vehicle that synthesizes its set speed
SubPolicyRuns ==
  /\ call'.op = "update"
  /\ ~OwnsSetSpeed(CP)
  /\ call'.CS.available /\ call'.CS.enabled

\* the bookkeeping one cycle owes button k: 1 and the current standstill flag on
\* a press, 0 and the flag on a release, one more cycle on a running timer
BookkeepingDone(k) ==
  LET latest == LatestEvents([b \in Tracked |-> "none"], call'.CS.buttonEvents)[k]
  IN  CASE latest = "press" ->
             /\ button_timers'[k] = 1
             /\ button_change_states'[k].standstill = call'.CS.standstill
        [] latest = "release" ->
             /\ button_timers'[k] = 0
             /\ button_change_states'[k].standstill = call'.CS.standstill
        [] OTHER ->
             /\ button_timers'[k] = IF button_timers[k] > 0
                                    THEN button_timers[k] + 1 ELSE 0
             /\ button_change_states'[k] = button_change_states[k]

\* C11: in every update cycle in which a sub-policy runs, simple or ramping, the
\* hold timers and the captured standstill flags are updated exactly once.
C11_BookkeepingEveryPolicy ==
  [][SubPolicyRuns => \A k \in Tracked : BookkeepingDone(k)]_vars

\* no release edge of a tracked button among the events of the step being taken
NoReleaseEdge ==
  \A i \in 1..Len(call'.CS.buttonEvents) :
    ~(call'.CS.buttonEvents[i].type \in Tracked /\ ~call'.CS.buttonEvents[i].pressed)

\* C12: simple policy, cruise enabled, no release edge: a held button's count
\* goes up by one per cycle, and a long-press tick is applied exactly in the
\* cycles in which a hold count is a positive multiple of 50 (at 50, at 100, ...):
\* in any other cycle the speed is unchanged, and in such a cycle the speed takes
\* the one long-press adjustment of the due button (of the decrement button when
\* both are due), unless that is an increment suppressed by standstill.
C12_LongPressEveryFifty ==
  [][(SimplePolicyRuns /\ call'.enabled_long /\ ~call'.CS.gasPressed /\ NoReleaseEdge) =>
       LET due == {k \in Tracked : LongPressDue(k)}
           k == IF decelCruise \in due THEN decelCruise ELSE accelCruise
           noEvent(b) == \A i \in 1..Len(call'.CS.buttonEvents) :
                            call'.CS.buttonEvents[i].type # b
       IN  /\ \A b \in Tracked : (button_timers[b] > 0 /\ noEvent(b)) =>
                                   button_timers'[b] = button_timers[b] + 1
           /\ IF due = {} THEN v_cruise_kph' = v_cruise_kph
              ELSE IF /\ k = accelCruise
                      /\ (button_change_states[k].standstill \/ call'.CS.standstill)
              THEN v_cruise_kph' = v_cruise_kph
              ELSE v_cruise_kph' = OneAdjustment(v_cruise_kph, k, TRUE,
                                                 reverse_acc_change', is_metric)]_vars

\* the second tick of one hold: at count 100 the speed steps by 10 again
C12_Witness ==
  /\ SimplePolicyRan
  /\ call.enabled_long
  /\ ~reverse_acc_change
  /\ call.CS.buttonEvents = <<>>
  /\ call.pre_timers[accelCruise] = 2 * CRUISE_LONG_PRESS
  /\ call.pre_timers[decelCruise] = 0
  /\ v_cruise_kph_last % Kph(10) = 0
  /\ v_cruise_kph = v_cruise_kph_last + Kph(10)

\* the button event the simple policy processes in the step being taken: the
\* first release edge of a tracked button unless it ends a long press, else the
\* long-press tick that is due; "none" when there is nothing to process
ProcessedEvent ==
  LET evs == call'.CS.buttonEvents
      edges == {i \in 1..Len(evs) : evs[i].type \in Tracked /\ ~evs[i].pressed}
      due == {k \in Tracked : LongPressDue(k)}
  IN  IF edges # {}
      THEN LET b == evs[CHOOSE i \in edges : \A j \in edges : i <= j].type
           IN  IF button_timers[b] > CRUISE_LONG_PRESS
               THEN [button |-> "none", long |-> FALSE]
               ELSE [button |-> b, long |-> FALSE]
      ELSE IF due = {} THEN [button |-> "none", long |-> FALSE]
      ELSE [button |-> IF decelCruise \in due THEN decelCruise ELSE accelCruise,
            long |-> TRUE]

\* clamp to [V_CRUISE_MIN, V_CRUISE_MAX] after rounding to 0.1 kph
Clamped(v) == Max(Kph(V_CRUISE_MIN), Min(Round1(v), Kph(V_CRUISE_MAX)))

\* C13: simple policy, with the toggle value read in this update call. Toggle
\* off: a long-press tick on a speed that is not a multiple of the long interval
\* snaps to the boundary in the press direction (ceiling for increment, floor for
\* decrement), on an aligned speed it steps by the long interval, and an ordinary
\* press always steps by the single interval. Toggle on: an ordinary press on a
\* partially aligned speed snaps to that boundary, on an aligned speed it steps
\* by the long interval, and a long-press tick always steps by the single
\* interval without snapping.
C13_ReverseToggleRoles ==
  [][(/\ SimplePolicyRuns /\ call'.enabled_long /\ ~call'.CS.gasPressed
      /\ ProcessedEvent.button # "none"
      /\ ~(/\ ProcessedEvent.button = accelCruise
           /\ (button_change_states[accelCruise].standstill \/ call'.CS.standstill))) =>
       LET up == ProcessedEvent.button = accelCruise
           single == IF is_metric THEN 100 ELSE 160
           long == IF is_metric THEN 1000 ELSE 800
           v == v_cruise_kph
           step(d) == IF up THEN v + d ELSE v - d
           boundary == IF up THEN CeilDiv(v, long) * long ELSE (v \div long) * long
           snaps == IF reverse_acc_change' THEN ~ProcessedEvent.long
                    ELSE ProcessedEvent.long
       IN  v_cruise_kph' =
             Clamped(IF snaps
                     THEN IF v % long # 0 THEN boundary ELSE step(long)
                     ELSE step(single))]_vars

\* the toggle was off before this call and is read as on in it: the ordinary
\* increment press on 33 snaps to 40
C13_Witness ==
  /\ SimplePolicyRan
  /\ call.enabled_long
  /\ is_metric
  /\ ~call.reverse_before /\ reverse_acc_change
  /\ call.CS.buttonEvents = <<Ev(accelCruise, FALSE)>>
  /\ call.pre_timers[accelCruise] \in 1..CRUISE_LONG_PRESS
  /\ v_cruise_kph_last = Kph(33)
  /\ v_cruise_kph = Kph(40)

\* the simple policy processes an event of the given button while the accelerator
\* is pressed, in the step being taken
ProcessedUnderGas(button) ==
  /\ SimplePolicyRuns /\ call'.enabled_long /\ call'.CS.gasPressed
  /\ ProcessedEvent.button = button

\* C14 as stated: whenever a decrement event is processed while the accelerator
\* is pressed, the resulting v_cruise_kph is not below the current vehicle speed
\* in kph, and an increment event is not raised to the vehicle speed.
C14_NotBelowVehicleSpeed ==
  [][/\ ProcessedUnderGas(decelCruise) => v_cruise_kph' >= call'.CS.vEgo
     /\ (/\ ProcessedUnderGas(accelCruise)
         /\ ~(button_change_states[accelCruise].standstill \/ call'.CS.standstill)) =>
          v_cruise_kph' = OneAdjustment(v_cruise_kph, accelCruise, ProcessedEvent.long,
                                        reverse_acc_change', is_metric)]_vars

\* C14 amended: whenever a decrement event is processed while the accelerator is
\* pressed, the resulting v_cruise_kph is not below the current vehicle speed
\* rounded to 0.1 kph and capped at V_CRUISE_MAX, and it is the larger of that and
\* the adjusted speed; an increment event is not raised to the vehicle speed.
C14_NotBelowCappedVehicleSpeed ==
  [][/\ ProcessedUnderGas(decelCruise) =>
          /\ v_cruise_kph' >= Min(Round1(call'.CS.vEgo), Kph(V_CRUISE_MAX))
          /\ v_cruise_kph' =
               Max(OneAdjustment(v_cruise_kph, decelCruise, ProcessedEvent.long,
                                 reverse_acc_change', is_metric),
                   Min(Round1(call'.CS.vEgo), Kph(V_CRUISE_MAX)))
     /\ (/\ ProcessedUnderGas(accelCruise)
         /\ ~(button_change_states[accelCruise].standstill \/ call'.CS.standstill)) =>
          v_cruise_kph' = OneAdjustment(v_cruise_kph, accelCruise, ProcessedEvent.long,
                                        reverse_acc_change', is_metric)]_vars

\* a decrement release at 33 kph set speed with the accelerator held at 100.35 kph
\* lifts the set speed to 100.3: the double nearest 100.35 lies below it
C14_Witness ==
  /\ SimplePolicyRan
  /\ call.enabled_long /\ call.CS.gasPressed
  /\ call.CS.buttonEvents = <<Ev(decelCruise, FALSE)>>
  /\ call.pre_timers[decelCruise] \in 1..CRUISE_LONG_PRESS
  /\ call.CS.vEgo = 10035
  /\ v_cruise_kph_last = Kph(33)
  /\ v_cruise_kph = 10030

-----------------------------------------------------------------------------
(* Ramping policy claims *)

\* an update cycle in which the ramping policy runs with openpilot longitudinal
RampingPolicyRuns ==
  /\ call'.op = "update"
  /\ CP.carName = "honda" /\ ~OwnsSetSpeed(CP)
  /\ call'.CS.available /\ call'.CS.enabled
  /\ call'.enabled_long

\* the set speed lies within the ramping policy's range
WithinRampingRange(v) == v >= Kph(V_CRUISE_MIN_HONDA) /\ v <= Kph(V_CRUISE_MAX)

\* the set speed after one pass through the display unit and back, with no
\* adjustment in between
Redisplayed(v) == IF is_metric THEN v ELSE FromDisplayUnit(ToDisplayUnit(v))

\* an increment adjustment is attempted in this cycle: the increment button is
\* latched after the cycle's events, or the cycle carries its release edge
IncrementAttempted ==
  \/ accel_pressed'
  \/ \E i \in 1..Len(call'.CS.buttonEvents) :
       call'.CS.buttonEvents[i] = Ev(accelCruise, FALSE)

\* C15: in a cycle of the ramping policy an increment adjustment, hold-driven or
\* release edge, leaves v_cruise_kph unchanged when the vehicle is at standstill
\* or when the increment press arrived during standstill.
C15_RampingStandstillSuppression ==
  [][(/\ RampingPolicyRuns
      /\ WithinRampingRange(v_cruise_kph)
      /\ IncrementAttempted
      /\ \/ call'.CS.standstill
         \/ /\ call.op = "update" /\ call.CS.standstill
            /\ call.CS.buttonEvents = <<Ev(accelCruise, TRUE)>>)
       => v_cruise_kph' = Redisplayed(v_cruise_kph)]_vars

\* an update cycle in which the ramping policy runs, with or without openpilot
\* longitudinal
RampingCycle ==
  /\ call'.op = "update"
  /\ CP.carName = "honda" /\ ~OwnsSetSpeed(CP)
  /\ call'.CS.available /\ call'.CS.enabled

\* the button whose hold the ramping policy serves: increment before decrement
HeldButton == IF accel_pressed' THEN accelCruise ELSE decelCruise

\* a hold-driven change: a button pressed in an earlier cycle is latched and the
\* set speed moved by more than its pass through the display unit
HoldDrivenChange ==
  /\ accel_pressed' \/ decel_pressed'
  /\ call'.press_frame[HeldButton] < call'.frame
  /\ v_cruise_kph' # Redisplayed(v_cruise_kph)

\* C16: fastMode becomes true only in an update in which a button is latched and
\* a hold-driven change of v_cruise_kph happened; once true it stays true until
\* an update of the ramping policy that ends with both buttons released, and
\* after such an update it is false.
C16_FastModeLatch ==
  [][/\ (fastMode' /\ ~fastMode /\ WithinRampingRange(v_cruise_kph)) =>
          (RampingCycle /\ HoldDrivenChange)
     /\ (fastMode /\ ~fastMode') =>
          (RampingCycle /\ ~accel_pressed' /\ ~decel_pressed')
     /\ (RampingCycle /\ ~accel_pressed' /\ ~decel_pressed') => ~fastMode']_vars

\* a cycle of the ramping policy that ends with a button latched and the set
\* speed moved by more than its pass through the display unit
RampingHoldStep ==
  /\ RampingPolicyRuns
  /\ WithinRampingRange(v_cruise_kph)
  /\ accel_pressed' \/ decel_pressed'
  /\ v_cruise_kph' # Redisplayed(v_cruise_kph)

\* frames from the later of the served button's press and the latest change of
\* the set speed to the current cycle
FramesHeld ==
  call'.frame - Max(call'.press_frame[HeldButton], call.change_frame)

\* C17: while a button is held with openpilot longitudinal, a hold-driven change
\* comes no earlier than 100 frames (1 s) after the press and after the previous
\* change, or no earlier than 50 frames (0.5 s) once fastMode is set; the speed
\* never changes in two consecutive cycles of one hold.
C17_HoldRate ==
  [][RampingHoldStep =>
       /\ FramesHeld >= FastHoldFrames
       /\ ~fastMode => FramesHeld >= HoldFrames
       /\ ~(/\ call.op = "update"
            /\ call.frame = call'.frame - 1
            /\ v_cruise_kph # v_cruise_kph_last)]_vars

\* the increment button pressed at frame 0 and held: 33 kph becomes 35 at frame
\* 100 and, in fast mode, 40 at frame 150
C17_Witness ==
  /\ call.op = "update" /\ call.enabled_long
  /\ CP.carName = "honda" /\ is_metric
  /\ accel_pressed /\ fastMode
  /\ call.press_frame[accelCruise] = 0
  /\ call.frame = HoldFrames + FastHoldFrames
  /\ call.change_frame = call.frame
  /\ v_cruise_kph_last = Kph(35)
  /\ v_cruise_kph = Kph(40)

\* the cycle carries the release of button k, pressed before and the only event,
\* and leaves no button latched
ReleaseEdgeOf(k) ==
  /\ RampingPolicyRuns
  /\ WithinRampingRange(v_cruise_kph)
  /\ call'.CS.buttonEvents = <<Ev(k, FALSE)>>
  /\ last_event[k] = "press"
  /\ ~accel_pressed' /\ ~decel_pressed'

\* one discrete adjustment of the ramping policy in the direction of button k,
\* made in the display unit and clamped there
RampingReleaseStep(v, k) ==
  LET d == IF is_metric THEN v ELSE ToDisplayUnit(v)
      a == IF k = accelCruise
           THEN IF reverse_acc_change' THEN HondaSnapUp(d) ELSE d + Kph(1)
           ELSE IF reverse_acc_change' THEN HondaSnapDown(d) ELSE d - Kph(1)
      c == clip(a, Kph(V_CRUISE_MIN_HONDA), Kph(V_CRUISE_MAX))
  IN  IF is_metric THEN c ELSE FromDisplayUnit(c)

\* the previous call was a cycle of the ramping policy with openpilot
\* longitudinal, entered with the set speed in range
RampingPolicyRan ==
  /\ call.op = "update"
  /\ call.CS.available /\ call.CS.enabled
  /\ call.enabled_long
  /\ WithinRampingRange(v_cruise_kph_last)

\* C18: a release edge of the increment or decrement button does not change
\* v_cruise_kph when a hold-driven change happened during that press (here: in the
\* cycle before), and makes exactly one discrete adjustment in the button's
\* direction when the press was short (here: pressed in the cycle before, so
\* that no hold tick can have fired).
C18_RampingReleaseEdges ==
  [][\A k \in Tracked :
       (ReleaseEdgeOf(k) /\ RampingPolicyRan) =>
         /\ call.CS.buttonEvents = <<Ev(k, TRUE)>> =>
              v_cruise_kph' = RampingReleaseStep(v_cruise_kph, k)
         /\ (/\ call.CS.buttonEvents = <<>>
             /\ v_cruise_kph # Redisplayed(v_cruise_kph_last)) =>
              v_cruise_kph' = Redisplayed(v_cruise_kph)]_vars

\* C20: after any sequence of calls, cycles without available or enabled cruise
\* included, a press latch of the ramping policy is set only if the latest event
\* of its button was a press.
C20_NoStalePressLatch ==
  /\ accel_pressed => last_event[accelCruise] = "press"
  /\ decel_pressed => last_event[decelCruise] = "press"

-----------------------------------------------------------------------------
(* Simple policy: the release that ends a long press *)

\* event i of the cycle is the release of a tracked button whose hold timer
\* exceeds CRUISE_LONG_PRESS
EndsLongPress(i) ==
  LET b == call'.CS.buttonEvents[i]
  IN  /\ b.type \in Tracked /\ ~b.pressed
      /\ button_timers[b.type] > CRUISE_LONG_PRESS

\* event i of the cycle is the release of a tracked button
TrackedRelease(i) ==
  LET b == call'.CS.buttonEvents[i]
  IN  b.type \in Tracked /\ ~b.pressed

\* C19 as stated: in a cycle of the simple policy that carries the release of a
\* tracked button whose hold timer exceeds CRUISE_LONG_PRESS, v_cruise_kph is
\* unchanged, whatever else the cycle carries.
C19_LongPressReleaseNoStep ==
  [][(/\ SimplePolicyRuns /\ call'.enabled_long
      /\ \E i \in 1..Len(call'.CS.buttonEvents) : EndsLongPress(i))
       => v_cruise_kph' = v_cruise_kph]_vars

\* C19 amended: in a cycle of the simple policy whose first release of a tracked
\* button is that of a button whose hold timer exceeds CRUISE_LONG_PRESS,
\* v_cruise_kph is unchanged, whatever else the cycle carries.
C19_FirstReleaseEndsLongPress ==
  [][(/\ SimplePolicyRuns /\ call'.enabled_long
      /\ \E i \in 1..Len(call'.CS.buttonEvents) :
           /\ EndsLongPress(i)
           /\ \A j \in 1..(i - 1) : ~TrackedRelease(j))
       => v_cruise_kph' = v_cruise_kph]_vars

\* the decrement button is released after 51 or more cycles together with the
\* increment button, which was not held: neither release moves the set speed
C19_Witness ==
  /\ SimplePolicyRan /\ call.enabled_long
  /\ call.CS.buttonEvents = <<Ev(decelCruise, FALSE), Ev(accelCruise, FALSE)>>
  /\ call.pre_timers[decelCruise] > CRUISE_LONG_PRESS
  /\ call.pre_timers[accelCruise] = 0
  /\ ~call.CS.standstill
  /\ v_cruise_kph = v_cruise_kph_last
  /\ v_cruise_kph # Kph(V_CRUISE_INITIAL)

====
